---- MODULE Spec2Model ----
(***************************************************************************)
(* A model of four pieces of the kpi front end:                            *)
(*   - SubmissionModal (submissionModal.tsx): the fetch / navigation state *)
(*     machine of the submission modal, specification Spec;                *)
(*   - ProtectorHelpers.safeExecute, specification SpecProtector;          *)
(*   - AnalysisTab (analysisTab.component.tsx), specification SpecTab;     *)
(*   - useDisplayPrice, specification SpecPrice.                           *)
(***************************************************************************)
EXTENDS Integers, Sequences, FiniteSets, TLC

VARIABLES
    \* ---- SubmissionModal ----
    props,          \* this.props: sid, ids, tableInfo (asset is fixed)
    state,          \* this.state
    mounted,        \* componentDidMount has run
    requests,       \* dataInterface.getSubmission calls still in flight
    nreq,           \* number of getSubmission calls issued so far
    modalParams,    \* parameters of the last pageState.showModal call
    lastOp,         \* the handler that ran last, with its input
    staleCopy,      \* no response has written state.submission since the
                    \* last navigation or refresh
    statusCalls,    \* validation-status updates and removals still in flight
    nstatus,        \* number of validation-status calls issued so far
    serverStatus,   \* the validation status the server holds for each sid
    dialog,         \* the deletion confirmation dialog: "closed" or "open"
    deleteCalls,    \* actions.resources.deleteSubmission calls still in flight
    ndelete,        \* number of deleteSubmission calls issued so far
    hidden,         \* pageState.hideModal has been called
    \* ---- ProtectorHelpers ----
    guard,          \* the safeExecute call in progress
    callbackCalls,  \* how many times the callback has been invoked
    confirmCalls,   \* how many times confirm() has been shown
    history,        \* the completed safeExecute calls
    \* ---- AnalysisTab ----
    tab,            \* isInitialised, isErrored, position of setupQuestions
    analysis,       \* the reducer state: questions, hasUnsavedWork
    store,          \* singleProcessingStore, and the dependency the
                    \* hasUnsavedWork effect last ran with
    server,         \* the processing url and the responses it returns on load
    tabLog,         \* the requests made and the actions dispatched
    \* ---- useDisplayPrice ----
    priceArgs,      \* the price and the adjusted quantity of the last render
    displayPrice    \* what the hook returned at the last render

modalVars == <<props, state, mounted, requests, nreq, modalParams, lastOp, staleCopy>>
recordVars == <<statusCalls, nstatus, serverStatus, dialog, deleteCalls, ndelete, hidden>>
protectorVars == <<guard, callbackCalls, confirmCalls, history>>
tabVars == <<tab, analysis, store, server, tabLog>>
priceVars == <<priceArgs, displayPrice>>
vars == <<modalVars, recordVars, protectorVars, tabVars, priceVars>>

-----------------------------------------------------------------------------
(* Bounds *)

\* identifiers of submissions are 0 .. MaxId
MaxId == 3
\* the ids list of one table page holds at most MaxLen identifiers
MaxLen == 2
\* tableInfo.currentPage is 0 .. MaxPage
MaxPage == 1
\* at most MaxRequests getSubmission calls are issued
MaxRequests == 3
\* at most MaxCalls calls of safeExecute are made
MaxCalls == 4
\* the analysis schema holds MaxQuestions questions
MaxQuestions == 2
\* a response is 0 (none) or one of the values 1 .. MaxValue
MaxValue == 1
\* at most MaxStatusCalls validation-status calls are issued
MaxStatusCalls == 2
\* at most MaxDeleteCalls deleteSubmission calls are issued
MaxDeleteCalls == 2
\* unit_amount is a multiple of 150 cents up to 150 * MaxAmount
MaxAmount == 8
\* getAdjustedQuantityForPrice returns 1 .. MaxFactor
MaxFactor == 3

-----------------------------------------------------------------------------
(* Values *)

DigitStrings == <<"0", "1", "2", "3", "4", "5", "6", "7", "8", "9">>

\* String(n) for a small number n
NumberToString(n) == DigitStrings[n + 1]

\* A sid is a string (the declared type of props.sid) or a number (what
\* switchSubmission hands to pageState.showModal) or false; a number is held
\* by its decimal text, so that === is equality of the two fields.
StringSid(text) == [type |-> "string", text |-> text]
NumberSid(n) == [type |-> "number", text |-> NumberToString(n)]
FalseSid == [type |-> "boolean", text |-> ""]

\* `if (sid)`
Truthy(sid) ==
    CASE sid.type = "string" -> sid.text # ""
      [] sid.type = "number" -> sid.text # "0"
      [] OTHER -> FALSE

IsNumeric(sid) == \E n \in 0..9 : DigitStrings[n + 1] = sid.text

\* Number.parseInt(sid) for a sid that IsNumeric; any other sid gives NaN,
\* which findIndex never finds
ParseInt(sid) == CHOOSE n \in 0..9 : DigitStrings[n + 1] = sid.text

Ids == 0..MaxId
Sids == {StringSid(NumberToString(n)) : n \in Ids}

\* ordered lists of distinct identifiers
IdLists == {l \in UNION {[1..n -> Ids] : n \in 0..MaxLen} :
                \A i, j \in DOMAIN l : i # j => l[i] # l[j]}

AssetUid == "aUid"

DETAIL_NOT_FOUND == "{\"detail\":\"Not found.\"}"

NoTableInfo == [kind |-> "boolean", resultsTotal |-> 0, pageSize |-> 0, currentPage |-> 0]

TableInfos ==
    {NoTableInfo} \cup
    [kind : {"object"}, resultsTotal : 0..((MaxPage + 1) * MaxLen + 1),
     pageSize : {MaxLen}, currentPage : 0..MaxPage]

\* every props value of the SubmissionModalProps interface within the bounds
AllProps == [sid : Sids, ids : IdLists, tableInfo : TableInfos]

\* the data table the modal is opened from: rows 1 .. MaxId in pages of
\* MaxLen rows
PageIds(p) == [i \in 1..(IF (p + 1) * MaxLen <= MaxId THEN MaxLen ELSE MaxId - p * MaxLen)
                 |-> p * MaxLen + i]
Pages == {p \in 0..MaxId : p * MaxLen < MaxId}
PageTableInfo(p) ==
    [kind |-> "object", resultsTotal |-> MaxId, pageSize |-> MaxLen, currentPage |-> p]

\* the props the table gives the modal for a row of one of its pages, with or
\* without tableInfo
TableProps ==
    UNION {[sid : {StringSid(NumberToString(PageIds(p)[i])) : i \in DOMAIN PageIds(p)},
            ids : {PageIds(p)},
            tableInfo : {NoTableInfo, PageTableInfo(p)}] : p \in Pages}

\* the uid of a _validation_status; "" stands for the object without uid, {}
StatusUids == {"validation_status_approved", "validation_status_on_hold"}
NoStatus == ""
\* the texts of the sids the server holds a record for
SidTexts == {NumberToString(n) : n \in Ids}

NullSubmission == [isNull |-> TRUE, sid |-> "", req |-> 0, validation |-> NoStatus]

\* the record the server returns to request r
SubmissionResponse(r) ==
    [isNull |-> FALSE, sid |-> r.sid.text, req |-> r.id,
     validation |-> serverStatus[r.sid.text]]

\* state.submissionDataFetchError is `false` or a message
NoFetchError == [isString |-> FALSE, text |-> ""]
FetchError(text) == [isString |-> TRUE, text |-> text]

FailResponses == [responseText : {"", DETAIL_NOT_FOUND, "Server Error (500)"},
                  statusText : {"", "error"}]

NoModalParams == [set |-> FALSE, sid |-> FalseSid, page |-> ""]

NoRequest == [id |-> 0, assetUid |-> "", sid |-> FalseSid]
Op(name, r) == [op |-> name, req |-> r.id]

-----------------------------------------------------------------------------
(* SubmissionModal *)

\* Array.prototype.findIndex((k) => k === Number.parseInt(sid)), 0-based
FindIndex(ids, sid) ==
    IF IsNumeric(sid) /\ \E i \in DOMAIN ids : ids[i] = ParseInt(sid)
    THEN (CHOOSE i \in DOMAIN ids :
            /\ ids[i] = ParseInt(sid)
            /\ \A j \in DOMAIN ids : ids[j] = ParseInt(sid) => i <= j) - 1
    ELSE -1

\* `if (ids[i])`: the element exists and is truthy (a number other than 0)
TruthyAt(ids, i) == (i + 1) \in DOMAIN ids /\ ids[i + 1] # 0

\* the previous/next computation of getSubmission's done handler
PrevNext(ids, sid, tableInfo) ==
    IF ~Truthy(sid)
    THEN [previous |-> -1, next |-> -1]
    ELSE
        LET c == FindIndex(ids, sid)
            prev0 == IF TruthyAt(ids, c - 1) THEN ids[c] ELSE -1
            next0 == IF TruthyAt(ids, c + 1) THEN ids[c + 2] ELSE -1
            nextAvailable ==
                tableInfo.resultsTotal > (tableInfo.currentPage + 1) * tableInfo.pageSize
        IN  IF tableInfo.kind # "boolean"
            THEN [next |-> IF c + 1 = Len(ids) /\ nextAvailable THEN -2 ELSE next0,
                  previous |-> IF tableInfo.currentPage > 0 /\ prev0 = -1 THEN -2 ELSE prev0]
            ELSE [previous |-> prev0, next |-> next0]

\* the fail handler looking at statusText before responseText
ErrorMessageStatusFirst(error, sid) ==
    IF error.statusText # ""
    THEN error.statusText
    ELSE IF error.responseText # ""
         THEN IF error.responseText = DETAIL_NOT_FOUND
              THEN "The submission could not be found. It may have been deleted. Submission ID: " \o sid.text
              ELSE error.responseText
         ELSE "Error: could not load data."

\* the message chosen by getSubmission's fail handler
ErrorMessage(error, sid) ==
    IF error.responseText # ""
    THEN IF error.responseText = DETAIL_NOT_FOUND
         THEN "The submission could not be found. It may have been deleted. Submission ID: " \o sid.text
         ELSE error.responseText
    ELSE IF error.statusText # ""
         THEN error.statusText
         ELSE "Error: could not load data."

\* what render() shows
RenderState(s) ==
    IF s.isFetchingSubmissionData THEN "fetching"
    ELSE IF s.submissionDataFetchError.isString THEN "error"
    ELSE IF s.submission.isNull THEN "unknownError"
    ELSE "displaying"

\* the state set by the constructor
InitialState(p) ==
    [submission |-> NullSubmission,
     isFetchingSubmissionData |-> TRUE,
     submissionDataFetchError |-> NoFetchError,
     previous |-> -1,
     next |-> -1,
     sid |-> p.sid,
     isRefreshNeeded |-> FALSE,
     isValidationStatusChangePending |-> FALSE]

ModalInit(propsSet) ==
    /\ props \in propsSet
    /\ state = InitialState(props)
    /\ mounted = FALSE
    /\ requests = {}
    /\ nreq = 0
    /\ modalParams = NoModalParams
    /\ lastOp = Op("constructor", NoRequest)
    /\ staleCopy = FALSE

\* getSubmission(assetUid, sid) up to the point where the request is sent,
\* applied to state s
GetSubmission(s, sid) ==
    /\ nreq < MaxRequests
    /\ nreq' = nreq + 1
    /\ requests' = requests \cup {[id |-> nreq + 1, assetUid |-> AssetUid, sid |-> sid]}
    /\ state' = [s EXCEPT !.isFetchingSubmissionData = TRUE]

ComponentDidMount ==
    /\ ~mounted
    /\ mounted' = TRUE
    /\ GetSubmission(state, state.sid)
    /\ lastOp' = Op("componentDidMount", NoRequest)
    /\ UNCHANGED <<props, modalParams, staleCopy>>

\* a done handler that drops the response of a request that is not the latest
GetSubmissionDoneFenced(r) ==
    /\ r \in requests
    /\ requests' = requests \ {r}
    /\ IF r.id = nreq
       THEN LET pn == PrevNext(props.ids, r.sid, props.tableInfo)
            IN  /\ state' = [state EXCEPT !.submission = SubmissionResponse(r),
                                          !.isFetchingSubmissionData = FALSE,
                                          !.next = pn.next,
                                          !.previous = pn.previous]
                /\ staleCopy' = FALSE
       ELSE UNCHANGED <<state, staleCopy>>
    /\ lastOp' = Op("done", r)
    /\ UNCHANGED <<props, mounted, nreq, modalParams>>

\* the done handler of getSubmission, for request r
GetSubmissionDone(r) ==
    /\ r \in requests
    /\ requests' = requests \ {r}
    /\ LET pn == PrevNext(props.ids, r.sid, props.tableInfo)
       IN  state' = [state EXCEPT !.submission = SubmissionResponse(r),
                                  !.isFetchingSubmissionData = FALSE,
                                  !.next = pn.next,
                                  !.previous = pn.previous]
    /\ lastOp' = Op("done", r)
    /\ staleCopy' = FALSE
    /\ UNCHANGED <<props, mounted, nreq, modalParams>>

\* a fail handler that stores the message and leaves the spinner on
GetSubmissionFailKeepsFetching(r, e) ==
    /\ r \in requests
    /\ requests' = requests \ {r}
    /\ state' = [state EXCEPT !.submissionDataFetchError = FetchError(ErrorMessage(e, r.sid))]
    /\ lastOp' = Op("fail", r)
    /\ UNCHANGED <<props, mounted, nreq, modalParams, staleCopy>>

\* the fail handler of getSubmission, for request r and error response e
GetSubmissionFail(r, e) ==
    /\ r \in requests
    /\ requests' = requests \ {r}
    /\ state' = [state EXCEPT !.submissionDataFetchError = FetchError(ErrorMessage(e, r.sid)),
                              !.isFetchingSubmissionData = FALSE]
    /\ lastOp' = Op("fail", r)
    /\ UNCHANGED <<props, mounted, nreq, modalParams, staleCopy>>

\* componentDidUpdate comparing state.sid, which getDerivedStateFromProps has
\* already set, with props.sid: it never fetches
ReceivePropsComparesState(p) ==
    /\ mounted
    /\ props' = p
    /\ state' = IF state.sid # p.sid THEN [state EXCEPT !.sid = p.sid] ELSE state
    /\ lastOp' = Op("componentDidUpdate", NoRequest)
    /\ UNCHANGED <<mounted, requests, nreq, staleCopy>>

\* getDerivedStateFromProps followed by componentDidUpdate, when the parent
\* renders the modal with props p
ReceiveProps(p) ==
    /\ mounted
    /\ props' = p
    /\ LET derived == IF state.sid # p.sid THEN [state EXCEPT !.sid = p.sid] ELSE state
       IN  IF props.sid # p.sid
           THEN /\ GetSubmission(derived, p.sid)
                /\ staleCopy' = TRUE
           ELSE /\ state' = derived
                /\ UNCHANGED <<requests, nreq, staleCopy>>
    /\ lastOp' = Op("componentDidUpdate", NoRequest)
    /\ UNCHANGED <<mounted>>

\* the page shows the modal with the parameters switchSubmission gave it
ShowModalParams ==
    /\ modalParams.set
    /\ modalParams.page = ""
    /\ ReceiveProps([props EXCEPT !.sid = modalParams.sid])
    /\ modalParams' = NoModalParams

\* the table loaded another page (or another row was chosen) and the page
\* shows the modal for a submission of it
ShowOtherSubmission(p) ==
    /\ p.sid # props.sid
    /\ ReceiveProps(p)
    /\ modalParams' = NoModalParams

\* the Previous / Next buttons are rendered by renderSubmissionActions
ButtonsRendered == RenderState(state) = "displaying"

\* switchSubmission(prevOrNext), from the Previous or Next button
SwitchSubmission(prevOrNext) ==
    /\ mounted
    /\ ButtonsRendered
    /\ prevOrNext \in {state.previous, state.next}
    /\ prevOrNext \notin {-1, -2}
    /\ state' = [state EXCEPT !.isFetchingSubmissionData = TRUE]
    /\ modalParams' = [set |-> TRUE, sid |-> NumberSid(prevOrNext), page |-> ""]
    /\ lastOp' = Op("switchSubmission", NoRequest)
    /\ staleCopy' = TRUE
    /\ UNCHANGED <<props, mounted, requests, nreq>>

\* switchSubmissionFromOtherTablePage(newPage), from the Previous or Next
\* button when the sibling is on another table page
SwitchSubmissionFromOtherTablePage(newPage) ==
    /\ mounted
    /\ ButtonsRendered
    /\ \/ newPage = "prev" /\ state.previous = -2
       \/ newPage = "next" /\ state.next = -2
    /\ state' = [state EXCEPT !.isFetchingSubmissionData = TRUE]
    /\ modalParams' = [set |-> TRUE, sid |-> FalseSid, page |-> newPage]
    /\ lastOp' = Op("switchSubmissionFromOtherTablePage", NoRequest)
    /\ staleCopy' = TRUE
    /\ UNCHANGED <<props, mounted, requests, nreq>>

\* launchEditSubmission, as far as it decides whether the refresh warning is
\* rendered
LaunchEditSubmission ==
    /\ mounted
    /\ ButtonsRendered
    /\ ~state.isRefreshNeeded
    /\ state' = [state EXCEPT !.isRefreshNeeded = TRUE]
    /\ lastOp' = Op("launchEditSubmission", NoRequest)
    /\ UNCHANGED <<props, mounted, requests, nreq, modalParams, staleCopy>>

\* triggerRefresh, from the button of renderRefreshWarning
TriggerRefresh ==
    /\ mounted
    /\ RenderState(state) = "displaying"
    /\ state.isRefreshNeeded
    /\ GetSubmission([state EXCEPT !.isRefreshNeeded = FALSE], props.sid)
    /\ lastOp' = Op("triggerRefresh", NoRequest)
    /\ staleCopy' = TRUE
    /\ UNCHANGED <<props, mounted, modalParams>>

-----------------------------------------------------------------------------
(* SubmissionModal: validation status, deletion, duplication *)

\* no validation-status or deletion call has been made, and no submission has
\* a validation status yet
RecordInit ==
    /\ statusCalls = {}
    /\ nstatus = 0
    /\ serverStatus = [t \in SidTexts |-> NoStatus]
    /\ dialog = "closed"
    /\ deleteCalls = {}
    /\ ndelete = 0
    /\ hidden = FALSE

\* the dropdowns and the action buttons are rendered by render()
RecordRendered == mounted /\ ~hidden /\ RenderState(state) = "displaying"

\* onValidationStatusChange(newValidationStatus), from the dropdown;
\* "no_status" is ValidationStatusAdditionalName.no_status
OnValidationStatusChange(newValidationStatus) ==
    /\ RecordRendered
    /\ nstatus < MaxStatusCalls
    /\ nstatus' = nstatus + 1
    /\ state' = [state EXCEPT !.isValidationStatusChangePending = TRUE]
    /\ statusCalls' = statusCalls \cup
            {[id |-> nstatus + 1, sid |-> state.sid.text,
              uid |-> IF newValidationStatus = "no_status" THEN NoStatus
                      ELSE newValidationStatus]}
    /\ lastOp' = [op |-> "onValidationStatusChange", req |-> 0]
    /\ UNCHANGED <<props, mounted, requests, nreq, modalParams, staleCopy>>
    /\ UNCHANGED <<serverStatus, dialog, deleteCalls, ndelete, hidden>>

\* the data table calls the same actions for one of its rows
TableValidationStatusChange(sidText, uid) ==
    /\ ~hidden
    /\ nstatus < MaxStatusCalls
    /\ nstatus' = nstatus + 1
    /\ statusCalls' = statusCalls \cup {[id |-> nstatus + 1, sid |-> sidText, uid |-> uid]}
    /\ lastOp' = [op |-> "tableValidationStatusChange", req |-> 0]
    /\ UNCHANGED <<props, state, mounted, requests, nreq, modalParams, staleCopy>>
    /\ UNCHANGED <<serverStatus, dialog, deleteCalls, ndelete, hidden>>

\* a refresh that writes the status without clearing the pending flag
RefreshSubmissionValidationStatusKeepsPending(s, result) ==
    IF s.submission.isNull THEN s
    ELSE [s EXCEPT !.submission.validation = result]

\* refreshSubmissionValidationStatus(result) applied to state s; result is the
\* uid of the response, NoStatus for a response without uid
RefreshSubmissionValidationStatus(s, result) ==
    LET cleared == [s EXCEPT !.isValidationStatusChangePending = FALSE]
    IN  IF s.submission.isNull THEN cleared
        ELSE [cleared EXCEPT !.submission.validation = result]

\* updateSubmissionValidationStatus.completed or
\* removeSubmissionValidationStatus.completed for the call c: the server has
\* stored the status, and the listeners registered by componentDidMount run
ValidationStatusCompleted(c) ==
    /\ ~hidden
    /\ c \in statusCalls
    /\ statusCalls' = statusCalls \ {c}
    /\ serverStatus' = [serverStatus EXCEPT ![c.sid] = c.uid]
    /\ state' = IF mounted THEN RefreshSubmissionValidationStatus(state, c.uid) ELSE state
    /\ lastOp' = [op |-> "refreshSubmissionValidationStatus", req |-> c.id]
    /\ UNCHANGED <<props, mounted, requests, nreq, modalParams, staleCopy>>
    /\ UNCHANGED <<nstatus, dialog, deleteCalls, ndelete, hidden>>

\* the call c failed: the modal listens to no failure
ValidationStatusFailed(c) ==
    /\ ~hidden
    /\ c \in statusCalls
    /\ statusCalls' = statusCalls \ {c}
    /\ lastOp' = [op |-> "validationStatusFailed", req |-> c.id]
    /\ UNCHANGED <<props, state, mounted, requests, nreq, modalParams, staleCopy>>
    /\ UNCHANGED <<nstatus, serverStatus, dialog, deleteCalls, ndelete, hidden>>

\* deleteSubmission(), from the Delete button: the dialog is shown
DeleteSubmission ==
    /\ RecordRendered
    /\ dialog = "closed"
    /\ dialog' = "open"
    /\ lastOp' = [op |-> "deleteSubmission", req |-> 0]
    /\ UNCHANGED <<props, state, mounted, requests, nreq, modalParams, staleCopy>>
    /\ UNCHANGED <<statusCalls, nstatus, serverStatus, deleteCalls, ndelete, hidden>>

\* an onok that also hides the modal
DialogOkHidesModal ==
    /\ ~hidden
    /\ dialog = "open"
    /\ ndelete < MaxDeleteCalls
    /\ dialog' = "closed"
    /\ ndelete' = ndelete + 1
    /\ deleteCalls' = deleteCalls \cup
            {[id |-> ndelete + 1, assetUid |-> AssetUid, sid |-> props.sid]}
    /\ hidden' = TRUE
    /\ lastOp' = [op |-> "onok", req |-> ndelete + 1]
    /\ UNCHANGED <<props, state, mounted, requests, nreq, modalParams, staleCopy>>
    /\ UNCHANGED <<statusCalls, nstatus, serverStatus>>

\* onok of the dialog: the Delete button of the dialog
DialogOk ==
    /\ ~hidden
    /\ dialog = "open"
    /\ ndelete < MaxDeleteCalls
    /\ dialog' = "closed"
    /\ ndelete' = ndelete + 1
    /\ deleteCalls' = deleteCalls \cup
            {[id |-> ndelete + 1, assetUid |-> AssetUid, sid |-> props.sid]}
    /\ lastOp' = [op |-> "onok", req |-> ndelete + 1]
    /\ UNCHANGED <<props, state, mounted, requests, nreq, modalParams, staleCopy>>
    /\ UNCHANGED <<statusCalls, nstatus, serverStatus, hidden>>

\* oncancel of the dialog: dialog.destroy()
DialogCancel ==
    /\ ~hidden
    /\ dialog = "open"
    /\ dialog' = "closed"
    /\ lastOp' = [op |-> "oncancel", req |-> 0]
    /\ UNCHANGED <<props, state, mounted, requests, nreq, modalParams, staleCopy>>
    /\ UNCHANGED <<statusCalls, nstatus, serverStatus, deleteCalls, ndelete, hidden>>

\* deleteSubmission.completed for the call c: onDeletedSubmissionCompleted
OnDeletedSubmissionCompleted(c) ==
    /\ ~hidden
    /\ mounted
    /\ c \in deleteCalls
    /\ deleteCalls' = deleteCalls \ {c}
    /\ hidden' = TRUE
    /\ lastOp' = [op |-> "onDeletedSubmissionCompleted", req |-> c.id]
    /\ UNCHANGED <<props, state, mounted, requests, nreq, modalParams, staleCopy>>
    /\ UNCHANGED <<statusCalls, nstatus, serverStatus, dialog, ndelete>>

\* the call c failed: the modal listens to no failure
DeleteSubmissionFailed(c) ==
    /\ ~hidden
    /\ c \in deleteCalls
    /\ deleteCalls' = deleteCalls \ {c}
    /\ lastOp' = [op |-> "deleteSubmissionFailed", req |-> c.id]
    /\ UNCHANGED <<props, state, mounted, requests, nreq, modalParams, staleCopy>>
    /\ UNCHANGED <<statusCalls, nstatus, serverStatus, dialog, ndelete, hidden>>

\* duplicateSubmission(), from the Duplicate button, as far as it hides the
\* modal
DuplicateSubmission ==
    /\ RecordRendered
    /\ hidden' = TRUE
    /\ lastOp' = [op |-> "duplicateSubmission", req |-> 0]
    /\ UNCHANGED <<props, state, mounted, requests, nreq, modalParams, staleCopy>>
    /\ UNCHANGED <<statusCalls, nstatus, serverStatus, dialog, deleteCalls, ndelete>>

-----------------------------------------------------------------------------
(* ProtectorHelpers *)

IdleGuard == [pc |-> "idle", shouldProtect |-> FALSE]

ProtectorInit ==
    /\ guard = IdleGuard
    /\ callbackCalls = 0
    /\ confirmCalls = 0
    /\ history = <<>>

\* callback()
InvokeCallback == callbackCalls' = callbackCalls + 1

\* safeExecute that asks whatever shouldProtect is
SafeExecuteAlwaysAsks(shouldProtect) ==
    /\ guard.pc = "idle"
    /\ Len(history) < MaxCalls
    /\ confirmCalls' = confirmCalls + 1
    /\ guard' = [pc |-> "confirm", shouldProtect |-> shouldProtect]
    /\ UNCHANGED <<callbackCalls, history>>

\* safeExecute(shouldProtect, callback) up to the return of confirm(), or to
\* its end when confirm() is not called
SafeExecute(shouldProtect) ==
    /\ guard.pc = "idle"
    /\ Len(history) < MaxCalls
    /\ IF shouldProtect
       THEN /\ confirmCalls' = confirmCalls + 1
            /\ guard' = [pc |-> "confirm", shouldProtect |-> shouldProtect]
            /\ UNCHANGED <<callbackCalls, history>>
       ELSE /\ InvokeCallback
            /\ history' = Append(history, [shouldProtect |-> shouldProtect, answer |-> "none"])
            /\ UNCHANGED <<confirmCalls, guard>>

\* the rest of safeExecute without the test of confirm()'s result
ConfirmReturnsIgnoresAnswer(answer) ==
    /\ guard.pc = "confirm"
    /\ InvokeCallback
    /\ history' = Append(history, [shouldProtect |-> guard.shouldProtect,
                                   answer |-> IF answer THEN "yes" ELSE "no"])
    /\ guard' = IdleGuard
    /\ UNCHANGED confirmCalls

\* confirm(UNSAVED_CHANGES_WARNING) returns the user's answer and safeExecute
\* runs to its end
ConfirmReturns(answer) ==
    /\ guard.pc = "confirm"
    /\ IF answer
       THEN InvokeCallback
       ELSE UNCHANGED callbackCalls
    /\ history' = Append(history, [shouldProtect |-> guard.shouldProtect,
                                   answer |-> IF answer THEN "yes" ELSE "no"])
    /\ guard' = IdleGuard
    /\ UNCHANGED confirmCalls

-----------------------------------------------------------------------------
(* AnalysisTab *)

Questions == 1..MaxQuestions
Responses == 0..MaxValue

\* getQuestionsFromSchema(advancedFeatures): the definitions, without responses
GetQuestionsFromSchema == [q \in Questions |-> 0]

\* applyUpdateResponseToInternalQuestions(xpath, apiResponse, questions)
ApplyUpdateResponseToInternalQuestions(apiResponse, questions) ==
    [q \in DOMAIN questions |->
        IF apiResponse[q] # 0 THEN apiResponse[q] ELSE questions[q]]

\* analysisQuestionsReducer(state, action)
AnalysisQuestionsReducer(s, action) ==
    CASE action.type = "setQuestions" ->
            [questions |-> action.questions, hasUnsavedWork |-> FALSE]
      [] action.type = "updateResponse" ->
            [questions |-> [s.questions EXCEPT ![action.question] = action.response],
             hasUnsavedWork |-> TRUE]
      [] action.type = "markSaved" ->
            [s EXCEPT !.hasUnsavedWork = FALSE]

\* the reducer's initialState
InitialAnalysis == [questions |-> <<>>, hasUnsavedWork |-> FALSE]

NoPayload == <<>>

TabInit ==
    /\ tab = [pc |-> "mounting", isInitialised |-> FALSE, isErrored |-> FALSE]
    /\ analysis = InitialAnalysis
    /\ store \in [hasUnsavedChanges : BOOLEAN, effectDep : {"none"}]
    /\ server \in [hasUrl : BOOLEAN, responses : [Questions -> Responses]]
    /\ tabLog = [requests |-> 0, setQuestions |-> 0, payload |-> NoPayload,
                 lastAction |-> "none"]

\* dispatch(action)
Dispatch(action) ==
    /\ analysis' = AnalysisQuestionsReducer(analysis, action)
    /\ tabLog' = [tabLog EXCEPT
            !.setQuestions = IF action.type = "setQuestions" THEN @ + 1 ELSE @,
            !.payload = IF action.type = "setQuestions" THEN action.questions ELSE @,
            !.lastAction = action.type]

BoolString(b) == IF b THEN "true" ELSE "false"

\* the effects of the first render: setupQuestions() up to its await, or to its
\* end when there is no processing url, then the hasUnsavedWork effect with the
\* state of that render
SetupQuestions ==
    /\ tab.pc = "mounting"
    /\ IF server.hasUrl
       THEN /\ tab' = [tab EXCEPT !.pc = "awaiting"]
            /\ tabLog' = [tabLog EXCEPT !.requests = @ + 1]
            /\ UNCHANGED analysis
       ELSE /\ Dispatch([type |-> "setQuestions", questions |-> GetQuestionsFromSchema])
            /\ tab' = [tab EXCEPT !.pc = "loaded", !.isInitialised = TRUE]
    /\ store' = [hasUnsavedChanges |-> analysis.hasUnsavedWork,
                 effectDep |-> BoolString(analysis.hasUnsavedWork)]
    /\ UNCHANGED server

\* fetchGetUrl resolved: the rest of the try block
FetchResolved ==
    /\ tab.pc = "awaiting"
    /\ Dispatch([type |-> "setQuestions",
                 questions |-> ApplyUpdateResponseToInternalQuestions(
                                   server.responses, GetQuestionsFromSchema)])
    /\ tab' = [tab EXCEPT !.pc = "loaded", !.isInitialised = TRUE]
    /\ UNCHANGED <<store, server>>

\* a catch block without setIsErrored(true)
FetchRejectedNoErrorFlag ==
    /\ tab.pc = "awaiting"
    /\ tab' = [tab EXCEPT !.pc = "failed", !.isInitialised = TRUE]
    /\ UNCHANGED <<analysis, store, server, tabLog>>

\* fetchGetUrl rejected: the catch block
FetchRejected ==
    /\ tab.pc = "awaiting"
    /\ tab' = [tab EXCEPT !.pc = "failed", !.isInitialised = TRUE, !.isErrored = TRUE]
    /\ UNCHANGED <<analysis, store, server, tabLog>>

\* the effect with an empty dependency list: it runs after the first render only
HasUnsavedWorkEffectOnMountOnly ==
    /\ tab.pc # "mounting"
    /\ store.effectDep = "none"
    /\ store' = [hasUnsavedChanges |-> analysis.hasUnsavedWork,
                 effectDep |-> BoolString(analysis.hasUnsavedWork)]
    /\ UNCHANGED <<tab, analysis, server, tabLog>>

\* the effect with the dependency [state.hasUnsavedWork], after a render in
\* which the dependency changed
HasUnsavedWorkEffect ==
    /\ tab.pc # "mounting"
    /\ store.effectDep # BoolString(analysis.hasUnsavedWork)
    /\ store' = [hasUnsavedChanges |-> analysis.hasUnsavedWork,
                 effectDep |-> BoolString(analysis.hasUnsavedWork)]
    /\ UNCHANGED <<tab, analysis, server, tabLog>>

\* what AnalysisTab renders
TabRender ==
    IF ~tab.isInitialised THEN "spinner"
    ELSE IF tab.isErrored THEN "error"
    ELSE "content"

\* a child of AnalysisContent edits the response of question q
UpdateResponse(q, v) ==
    /\ TabRender = "content"
    /\ v # analysis.questions[q]
    /\ Dispatch([type |-> "updateResponse", question |-> q, response |-> v])
    /\ UNCHANGED <<tab, store, server>>

\* a child of AnalysisContent reports the responses saved
MarkSaved ==
    /\ TabRender = "content"
    /\ analysis.hasUnsavedWork
    /\ Dispatch([type |-> "markSaved"])
    /\ UNCHANGED <<tab, store, server>>

-----------------------------------------------------------------------------
(* useDisplayPrice *)

\* The unit amounts are multiples of 150 cents: for these the divisions by 100
\* and by 12 and the product with a small whole factor are exact in binary
\* floating point, so that the arithmetic below, on whole cents over a
\* denominator, is the arithmetic of the code.
Amounts == {150 * a : a \in 0..MaxAmount}

\* recurring.interval; "" stands for a price without recurring
Intervals == {"", "day", "week", "month", "year"}

\* price?: Price | null; present = FALSE is null or undefined, hasAmount =
\* FALSE is a unit_amount that is null or undefined
NoPrice == [present |-> FALSE, hasAmount |-> FALSE, unit_amount |-> 0, interval |-> ""]
Prices ==
    {NoPrice}
        \cup {[present |-> TRUE, hasAmount |-> FALSE, unit_amount |-> 0, interval |-> i] :
                    i \in Intervals}
        \cup [present : {TRUE}, hasAmount : {TRUE}, unit_amount : Amounts,
              interval : Intervals]

\* what getAdjustedQuantityForPrice(submissionQuantity, transform_quantity)
\* can return
Factors == 1..MaxFactor

\* String(n) for a natural number n
RECURSIVE NatToString(_)
NatToString(n) ==
    IF n < 10 THEN DigitStrings[n + 1]
    ELSE NatToString(n \div 10) \o DigitStrings[(n % 10) + 1]

\* (num / den / 100).toFixed(2), for num / den a number of cents: the nearest
\* number of whole cents, the larger one of two equally near
ToFixed2(num, den) ==
    LET n == (2 * num + den) \div (2 * den)
    IN  NatToString(n \div 100) \o "." \o DigitStrings[((n % 100) \div 10) + 1]
            \o DigitStrings[(n % 10) + 1]

\* the hook with the yearly price shown undivided
UseDisplayPriceNoProration(price, factor) ==
    IF ~price.present \/ ~price.hasAmount \/ price.unit_amount = 0
    THEN "Free"
    ELSE IF price.interval = ""
         THEN "$" \o ToFixed2(price.unit_amount * factor, 1)
         ELSE "$" \o ToFixed2(price.unit_amount * factor, 1) \o " USD/month"

\* the value useDisplayPrice computes for a price, with factor what
\* getAdjustedQuantityForPrice returned
UseDisplayPrice(price, factor) ==
    IF ~price.present \/ ~price.hasAmount \/ price.unit_amount = 0
    THEN "Free"
    ELSE LET den == IF price.interval = "year" THEN 12 ELSE 1
             totalPrice == ToFixed2(price.unit_amount * factor, den)
         IN  IF price.interval = ""
             THEN "$" \o totalPrice
             ELSE "$" \o totalPrice \o " USD/month"

\* a component that uses the hook has not rendered
PriceIdle ==
    /\ priceArgs = [price |-> NoPrice, factor |-> 1]
    /\ displayPrice = [rendered |-> FALSE, text |-> ""]

PriceInit ==
    /\ priceArgs \in [price : Prices, factor : Factors]
    /\ displayPrice = [rendered |-> FALSE, text |-> ""]

\* the first render: useMemo computes the value
FirstRender ==
    /\ ~displayPrice.rendered
    /\ displayPrice' = [rendered |-> TRUE,
                        text |-> UseDisplayPrice(priceArgs.price, priceArgs.factor)]
    /\ UNCHANGED priceArgs

\* a later render with a dependency changed: useMemo computes again
RenderAgain(price, factor) ==
    /\ displayPrice.rendered
    /\ [price |-> price, factor |-> factor] # priceArgs
    /\ priceArgs' = [price |-> price, factor |-> factor]
    /\ displayPrice' = [rendered |-> TRUE, text |-> UseDisplayPrice(price, factor)]

-----------------------------------------------------------------------------
(* Specifications *)

\* the components that a specification leaves out stay as constructed
ModalIdle == ModalInit({[sid |-> StringSid("1"), ids |-> <<>>, tableInfo |-> NoTableInfo]})

TabIdle ==
    /\ tab = [pc |-> "mounting", isInitialised |-> FALSE, isErrored |-> FALSE]
    /\ analysis = InitialAnalysis
    /\ store = [hasUnsavedChanges |-> FALSE, effectDep |-> "none"]
    /\ server = [hasUrl |-> FALSE, responses |-> [q \in Questions |-> 0]]
    /\ tabLog = [requests |-> 0, setQuestions |-> 0, payload |-> NoPayload,
                 lastAction |-> "none"]

\* the modal opened from the data table
Init == ModalInit(TableProps) /\ RecordInit /\ ProtectorInit /\ TabIdle /\ PriceIdle

Next ==
    \/ ComponentDidMount /\ UNCHANGED <<recordVars, protectorVars, tabVars, priceVars>>
    \/ (\E r \in requests : GetSubmissionDone(r)) /\ UNCHANGED <<recordVars, protectorVars, tabVars, priceVars>>
    \/ (\E r \in requests, e \in FailResponses : GetSubmissionFail(r, e))
            /\ UNCHANGED <<recordVars, protectorVars, tabVars, priceVars>>
    \/ ShowModalParams /\ UNCHANGED <<recordVars, protectorVars, tabVars, priceVars>>
    \/ (\E p \in TableProps : ShowOtherSubmission(p)) /\ UNCHANGED <<recordVars, protectorVars, tabVars, priceVars>>
    \/ (\E n \in Ids : SwitchSubmission(n)) /\ UNCHANGED <<recordVars, protectorVars, tabVars, priceVars>>
    \/ (\E page \in {"prev", "next"} : SwitchSubmissionFromOtherTablePage(page))
            /\ UNCHANGED <<recordVars, protectorVars, tabVars, priceVars>>
    \/ LaunchEditSubmission /\ UNCHANGED <<recordVars, protectorVars, tabVars, priceVars>>
    \/ TriggerRefresh /\ UNCHANGED <<recordVars, protectorVars, tabVars, priceVars>>

Spec == Init /\ [][Next]_vars

\* one fetch of the modal, for every props value within the bounds
FetchInit == ModalInit(AllProps) /\ RecordInit /\ ProtectorInit /\ TabIdle /\ PriceIdle

FetchNext ==
    \/ ComponentDidMount /\ UNCHANGED <<recordVars, protectorVars, tabVars, priceVars>>
    \/ (\E r \in requests : GetSubmissionDone(r)) /\ UNCHANGED <<recordVars, protectorVars, tabVars, priceVars>>
    \/ (\E r \in requests, e \in FailResponses : GetSubmissionFail(r, e))
            /\ UNCHANGED <<recordVars, protectorVars, tabVars, priceVars>>

SpecFetch == FetchInit /\ [][FetchNext]_vars

\* calls of protectorHelpers.safeExecute
ProtectorSpecInit == ModalIdle /\ RecordInit /\ ProtectorInit /\ TabIdle /\ PriceIdle

ProtectorNext ==
    \/ (\E shouldProtect \in BOOLEAN : SafeExecute(shouldProtect))
            /\ UNCHANGED <<modalVars, recordVars, tabVars, priceVars>>
    \/ (\E answer \in BOOLEAN : ConfirmReturns(answer)) /\ UNCHANGED <<modalVars, recordVars, tabVars, priceVars>>

SpecProtector == ProtectorSpecInit /\ [][ProtectorNext]_vars

\* one mount of AnalysisTab
TabSpecInit == ModalIdle /\ RecordInit /\ ProtectorInit /\ TabInit /\ PriceIdle

TabNext ==
    \/ SetupQuestions /\ UNCHANGED <<modalVars, recordVars, protectorVars, priceVars>>
    \/ FetchResolved /\ UNCHANGED <<modalVars, recordVars, protectorVars, priceVars>>
    \/ FetchRejected /\ UNCHANGED <<modalVars, recordVars, protectorVars, priceVars>>
    \/ HasUnsavedWorkEffect /\ UNCHANGED <<modalVars, recordVars, protectorVars, priceVars>>
    \/ (\E q \in Questions, v \in Responses : UpdateResponse(q, v))
            /\ UNCHANGED <<modalVars, recordVars, protectorVars, priceVars>>
    \/ MarkSaved /\ UNCHANGED <<modalVars, recordVars, protectorVars, priceVars>>

SpecTab == TabSpecInit /\ [][TabNext]_vars

\* the modal with its validation-status dropdown, on one submission
ValidationSpecInit ==
    ModalInit(TableProps) /\ RecordInit /\ ProtectorInit /\ TabIdle /\ PriceIdle

\* the sids of the rows the data table shows
RowSidTexts == {NumberToString(props.ids[i]) : i \in DOMAIN props.ids}

ValidationNext ==
    \/ ComponentDidMount /\ UNCHANGED <<recordVars, protectorVars, tabVars, priceVars>>
    \/ (\E r \in requests : GetSubmissionDone(r))
            /\ UNCHANGED <<recordVars, protectorVars, tabVars, priceVars>>
    \/ (\E r \in requests, e \in FailResponses : GetSubmissionFail(r, e))
            /\ UNCHANGED <<recordVars, protectorVars, tabVars, priceVars>>
    \/ (\E o \in StatusUids \cup {"no_status"} : OnValidationStatusChange(o))
            /\ UNCHANGED <<protectorVars, tabVars, priceVars>>
    \/ (\E t \in RowSidTexts, u \in StatusUids \cup {NoStatus} :
                TableValidationStatusChange(t, u))
            /\ UNCHANGED <<protectorVars, tabVars, priceVars>>
    \/ (\E c \in statusCalls : ValidationStatusCompleted(c))
            /\ UNCHANGED <<protectorVars, tabVars, priceVars>>
    \/ (\E c \in statusCalls : ValidationStatusFailed(c))
            /\ UNCHANGED <<protectorVars, tabVars, priceVars>>

SpecValidation == ValidationSpecInit /\ [][ValidationNext]_vars

\* the modal with its Delete and Duplicate buttons, on one submission
DeleteSpecInit ==
    ModalInit(TableProps) /\ RecordInit /\ ProtectorInit /\ TabIdle /\ PriceIdle

DeleteNext ==
    \/ ~hidden /\ ComponentDidMount
            /\ UNCHANGED <<recordVars, protectorVars, tabVars, priceVars>>
    \/ ~hidden /\ (\E r \in requests : GetSubmissionDone(r))
            /\ UNCHANGED <<recordVars, protectorVars, tabVars, priceVars>>
    \/ ~hidden /\ (\E r \in requests, e \in FailResponses : GetSubmissionFail(r, e))
            /\ UNCHANGED <<recordVars, protectorVars, tabVars, priceVars>>
    \/ DeleteSubmission /\ UNCHANGED <<protectorVars, tabVars, priceVars>>
    \/ DialogOk /\ UNCHANGED <<protectorVars, tabVars, priceVars>>
    \/ DialogCancel /\ UNCHANGED <<protectorVars, tabVars, priceVars>>
    \/ (\E c \in deleteCalls : OnDeletedSubmissionCompleted(c))
            /\ UNCHANGED <<protectorVars, tabVars, priceVars>>
    \/ (\E c \in deleteCalls : DeleteSubmissionFailed(c))
            /\ UNCHANGED <<protectorVars, tabVars, priceVars>>
    \/ DuplicateSubmission /\ UNCHANGED <<protectorVars, tabVars, priceVars>>

SpecDelete == DeleteSpecInit /\ [][DeleteNext]_vars

\* renders of a component that uses useDisplayPrice
PriceSpecInit == ModalIdle /\ RecordInit /\ ProtectorInit /\ TabIdle /\ PriceInit

PriceNext ==
    \/ FirstRender /\ UNCHANGED <<modalVars, recordVars, protectorVars, tabVars>>
    \/ (\E price \in Prices, factor \in Factors : RenderAgain(price, factor))
            /\ UNCHANGED <<modalVars, recordVars, protectorVars, tabVars>>

SpecPrice == PriceSpecInit /\ [][PriceNext]_vars

-----------------------------------------------------------------------------
(* Claims about the previous/next computation, under SpecFetch *)

\* a getSubmission request has just completed successfully
JustLoaded == lastOp.op = "done"

\* the positions (1-based) of the loaded submission's sid in props.ids
PositionsOfSid == {c \in DOMAIN props.ids : NumberToString(props.ids[c]) = state.submission.sid}

IsObject(tableInfo) == tableInfo.kind = "object"

NextPageExists(tableInfo) ==
    /\ IsObject(tableInfo)
    /\ tableInfo.resultsTotal > (tableInfo.currentPage + 1) * tableInfo.pageSize

\* C1: after a successful getSubmission for a sid at position c of ids,
\* next = -2 exactly when c is the last position and a further page exists,
\* next = -1 exactly when c is the last position and no further page exists,
\* previous = -2 exactly when c is the first position and currentPage > 0,
\* previous = -1 exactly when c is the first position and currentPage is 0 or
\* tableInfo is not an object.
C1_BoundarySentinels ==
    JustLoaded =>
        \A c \in PositionsOfSid :
            LET last == c = Len(props.ids)
                first == c = 1
                t == props.tableInfo
            IN  /\ state.next = -2 <=> (last /\ NextPageExists(t))
                /\ state.next = -1 <=> (last /\ ~NextPageExists(t))
                /\ state.previous = -2 <=> (first /\ IsObject(t) /\ t.currentPage > 0)
                /\ state.previous = -1 <=> (first /\ ~(IsObject(t) /\ t.currentPage > 0))

\* C2: after a successful getSubmission for a sid at position c of ids, if c
\* is not the first position then previous = ids[c-1], and if c is not the
\* last position then next = ids[c+1].
C2_InteriorNeighbours ==
    JustLoaded =>
        \A c \in PositionsOfSid :
            /\ c > 1 => state.previous = props.ids[c - 1]
            /\ c < Len(props.ids) => state.next = props.ids[c + 1]

-----------------------------------------------------------------------------
(* Claims about safeExecute, under SpecProtector *)

\* this step completes a call of safeExecute
CallCompletes == Len(history') = Len(history) + 1

CompletedCall == history'[Len(history')]

\* C3: a call with shouldProtect = false invokes the callback exactly once,
\* within the call itself, and never shows the confirmation prompt.
C3_UnprotectedRunsCallback ==
    [][(CallCompletes /\ ~CompletedCall.shouldProtect) =>
            /\ guard.pc = "idle"
            /\ guard'.pc = "idle"
            /\ callbackCalls' = callbackCalls + 1
            /\ confirmCalls' = confirmCalls
            /\ CompletedCall.answer = "none"]_vars

C3_Witness ==
    /\ Len(history) = 1
    /\ ~history[1].shouldProtect
    /\ callbackCalls = 1
    /\ confirmCalls = 0

\* C4: a call with shouldProtect = true shows the prompt exactly once; the
\* callback is not invoked before the answer, is invoked exactly once after
\* an affirmative answer and is not invoked after a negative one.
C4_ProtectedAsksFirst ==
    [][/\ (guard.pc = "idle" /\ guard'.pc = "confirm") =>
            /\ guard'.shouldProtect
            /\ confirmCalls' = confirmCalls + 1
            /\ callbackCalls' = callbackCalls
            /\ history' = history
       /\ (CallCompletes /\ CompletedCall.shouldProtect) =>
            /\ guard.pc = "confirm"
            /\ guard'.pc = "idle"
            /\ confirmCalls' = confirmCalls
            /\ CompletedCall.answer \in {"yes", "no"}
            /\ callbackCalls' = callbackCalls + (IF CompletedCall.answer = "yes" THEN 1 ELSE 0)]_vars

C4_Witness ==
    /\ Len(history) = 2
    /\ history[1] = [shouldProtect |-> TRUE, answer |-> "no"]
    /\ history[2] = [shouldProtect |-> TRUE, answer |-> "yes"]
    /\ callbackCalls = 1
    /\ confirmCalls = 2

-----------------------------------------------------------------------------
(* Claims about the modal's fetches, under Spec *)

\* this step is the arrival of a response to a getSubmission request
ResponseArrives == lastOp'.op \in {"done", "fail"}

\* the request the arriving response answers
AnsweredRequest == CHOOSE r \in requests : r.id = lastOp'.req

\* C5: the modal starts fetching with no submission and issues one
\* getSubmission on mount; every response sets isFetchingSubmissionData to
\* false, a successful one stores the returned record with freshly computed
\* previous/next, a failed one stores a non-empty error message; render shows
\* an error or the submission only as the result of a response.
C5_Lifecycle ==
    /\ [](~mounted => /\ state.isFetchingSubmissionData
                      /\ state.submission = NullSubmission
                      /\ nreq = 0)
    /\ [](lastOp.op = "componentDidMount" =>
            /\ nreq = 1
            /\ requests = {[id |-> 1, assetUid |-> AssetUid, sid |-> props.sid]}
            /\ RenderState(state) = "fetching")
    /\ [][ResponseArrives =>
            /\ ~state'.isFetchingSubmissionData
            /\ lastOp'.op = "done" =>
                /\ state'.submission = SubmissionResponse(AnsweredRequest)
                /\ state'.previous =
                      PrevNext(props'.ids, AnsweredRequest.sid, props'.tableInfo).previous
                /\ state'.next =
                      PrevNext(props'.ids, AnsweredRequest.sid, props'.tableInfo).next
            /\ lastOp'.op = "fail" =>
                /\ state'.submissionDataFetchError.isString
                /\ state'.submissionDataFetchError.text # ""]_vars
    /\ [][(/\ RenderState(state') \in {"error", "displaying"}
           /\ RenderState(state') # RenderState(state)) => ResponseArrives]_vars

C5_Witness ==
    /\ lastOp.op = "fail"
    /\ RenderState(state) = "error"
    /\ ~state.submission.isNull
    /\ state.submission.sid # props.sid.text

C7_LastArrivalWins ==
    [][(lastOp'.op = "done" /\ AnsweredRequest.id < nreq) =>
            /\ state'.submission = SubmissionResponse(AnsweredRequest)
            /\ state'.submission.sid = AnsweredRequest.sid.text
            /\ state'.previous =
                  PrevNext(props'.ids, AnsweredRequest.sid, props'.tableInfo).previous
            /\ state'.next =
                  PrevNext(props'.ids, AnsweredRequest.sid, props'.tableInfo).next]_vars

\* both requests have completed, the earlier one last, and the modal displays
\* the record of the earlier-requested sid
C7_Witness ==
    /\ requests = {}
    /\ nreq = 2
    /\ lastOp = [op |-> "done", req |-> 1]
    /\ RenderState(state) = "displaying"
    /\ state.submission.req = 1
    /\ state.submission.sid # props.sid.text
    /\ state.sid = props.sid

\* the message the claim gives for error response e of a request for sid
ClassifiedMessage(e, sid) ==
    CASE e.responseText = "{\"detail\":\"Not found.\"}" ->
            "The submission could not be found. It may have been deleted. Submission ID: " \o sid
      [] e.responseText \notin {"", "{\"detail\":\"Not found.\"}"} -> e.responseText
      [] e.responseText = "" /\ e.statusText # "" -> e.statusText
      [] OTHER -> "Error: could not load data."

\* C8: a failed getSubmission stores the message of its class (not found,
\* responseText, statusText, fallback), sets isFetchingSubmissionData to
\* false, leaves submission, previous and next unchanged and issues no
\* request; requests are issued only on mount, on a change of props and on
\* triggerRefresh.
C8_FailureIsTerminal ==
    /\ [][\A r \in requests, e \in FailResponses :
            GetSubmissionFail(r, e) =>
                /\ state'.submissionDataFetchError.isString
                /\ state'.submissionDataFetchError.text = ClassifiedMessage(e, r.sid.text)
                /\ ~state'.isFetchingSubmissionData
                /\ state'.submission = state.submission
                /\ state'.previous = state.previous
                /\ state'.next = state.next
                /\ nreq' = nreq
                /\ requests' = requests \ {r}]_vars
    /\ [][nreq' # nreq =>
            lastOp'.op \in {"componentDidMount", "componentDidUpdate", "triggerRefresh"}]_vars

C8_Witness ==
    /\ lastOp.op = "fail"
    /\ requests = {}
    /\ ~state.isFetchingSubmissionData
    /\ ~state.submission.isNull
    /\ state.submissionDataFetchError.text =
          "The submission could not be found. It may have been deleted. Submission ID: " \o props.sid.text

-----------------------------------------------------------------------------
(* Claims about AnalysisTab, under SpecTab *)

\* C9: hasUnsavedWork is false right after setQuestions and after a mark-saved
\* action and true right after a response edit; after the first render, either
\* the store's flag equals hasUnsavedWork or the hasUnsavedWork effect is due
\* to run.
C9_UnsavedWorkForwarded ==
    /\ tabLog.lastAction \in {"setQuestions", "markSaved"} => ~analysis.hasUnsavedWork
    /\ tabLog.lastAction = "updateResponse" => analysis.hasUnsavedWork
    /\ tab.pc # "mounting" =>
          \/ store.hasUnsavedChanges = analysis.hasUnsavedWork
          \/ ENABLED HasUnsavedWorkEffect

\* an edit has been made, not saved, and forwarded to the store
C9_Witness ==
    /\ tabLog.lastAction = "updateResponse"
    /\ analysis.hasUnsavedWork
    /\ store.hasUnsavedChanges
    /\ store.effectDep = "true"

\* C10: the initial load makes at most one request and none without a
\* processing url; when it succeeds (or no request is made) the tab is
\* initialised, not errored, shows the content, and exactly one setQuestions
\* was dispatched, with the schema questions merged with the responses; when it
\* fails the tab is initialised and errored, shows the error message, no
\* setQuestions was dispatched and no second request is made.
C10_InitialLoad ==
    /\ tabLog.requests <= 1
    /\ tabLog.setQuestions <= 1
    /\ ~server.hasUrl => tabLog.requests = 0
    /\ tab.pc \in {"mounting", "awaiting"} =>
          /\ TabRender = "spinner"
          /\ ~tab.isErrored
          /\ tabLog.setQuestions = 0
    /\ tab.pc = "loaded" =>
          /\ TabRender = "content"
          /\ ~tab.isErrored
          /\ tabLog.setQuestions = 1
          /\ tabLog.requests = (IF server.hasUrl THEN 1 ELSE 0)
          /\ tabLog.payload =
                [q \in Questions |-> IF server.hasUrl THEN server.responses[q] ELSE 0]
    /\ tab.pc = "failed" =>
          /\ TabRender = "error"
          /\ tab.isInitialised
          /\ tab.isErrored
          /\ tabLog.setQuestions = 0
          /\ tabLog.requests = 1
          /\ analysis = InitialAnalysis

C10_Witness ==
    /\ tab.pc = "failed"
    /\ TabRender = "error"
    /\ tabLog.requests = 1
    /\ \E q \in Questions : server.responses[q] # 0

-----------------------------------------------------------------------------
(* Claims about useDisplayPrice, under SpecPrice *)

\* the text of an amount of n whole cents, as the claims state it
Dollars(n) ==
    NatToString(n \div 100) \o "." \o DigitStrings[((n % 100) \div 10) + 1]
        \o DigitStrings[(n % 10) + 1]

\* the whole numbers of cents nearest to unit_amount * factor, over 12 for a
\* yearly price
NearestCents(price, factor) ==
    LET den == IF price.interval = "year" THEN 12 ELSE 1
        num == price.unit_amount * factor
    IN  {n \in 0..(150 * MaxAmount * MaxFactor) :
            /\ 2 * den * n <= 2 * num + den
            /\ 2 * den * n >= 2 * num - den}

\* the text the claim gives for a price that has an amount
StatedTexts(price, factor) ==
    {"$" \o Dollars(n) \o (IF price.interval = "" THEN "" ELSE " USD/month") :
        n \in NearestCents(price, factor)}

\* the two examples of the specification
PriceExamples ==
    /\ (/\ priceArgs.price = [present |-> TRUE, hasAmount |-> TRUE,
                               unit_amount |-> 1200, interval |-> ""]
        /\ priceArgs.factor = 1) => displayPrice.text = "$12.00"
    /\ (/\ priceArgs.price = [present |-> TRUE, hasAmount |-> TRUE,
                               unit_amount |-> 1200, interval |-> "year"]
        /\ priceArgs.factor = 1) => displayPrice.text = "$1.00 USD/month"

\* C11 as stated: the hook returns 'Free' when the price or its unit_amount
\* is absent, and otherwise '$' and unit_amount / 100, over 12 for a yearly
\* price and for no other, times the factor, with two decimals, followed by
\* ' USD/month' exactly when there is a recurring interval.
C11_AsStated ==
    displayPrice.rendered =>
        /\ IF ~priceArgs.price.present \/ ~priceArgs.price.hasAmount
           THEN displayPrice.text = "Free"
           ELSE displayPrice.text \in StatedTexts(priceArgs.price, priceArgs.factor)
        /\ PriceExamples

\* C11, amended: the hook returns 'Free' when the price or its unit_amount is
\* absent or the unit_amount is 0, and otherwise the amount as stated.
C11_DisplayPrice ==
    displayPrice.rendered =>
        /\ IF \/ ~priceArgs.price.present
              \/ ~priceArgs.price.hasAmount
              \/ priceArgs.price.unit_amount = 0
           THEN displayPrice.text = "Free"
           ELSE displayPrice.text \in StatedTexts(priceArgs.price, priceArgs.factor)
        /\ PriceExamples

\* the yearly example has been rendered
C11_Witness ==
    /\ displayPrice.rendered
    /\ priceArgs.price = [present |-> TRUE, hasAmount |-> TRUE,
                          unit_amount |-> 1200, interval |-> "year"]
    /\ priceArgs.factor = 1
    /\ displayPrice.text = "$1.00 USD/month"

-----------------------------------------------------------------------------
(* Claims about the validation status, under SpecValidation *)

\* the validation-status call whose completion the mounted modal handles in
\* this step
CompletedStatusCall == CHOOSE c \in statusCalls : c \notin statusCalls'

StatusRefreshed ==
    /\ mounted
    /\ lastOp'.op = "refreshSubmissionValidationStatus"
    /\ statusCalls' # statusCalls

\* C12: a completed validation-status update or removal makes no new fetch
\* and sets isValidationStatusChangePending to false; with a submission
\* loaded, its _validation_status becomes the result (the empty object for a
\* result without uid) and every other field of the submission and previous,
\* next, sid and isFetchingSubmissionData are unchanged; with no submission
\* loaded, nothing but the pending flag changes.
C12_ValidationStatusFrame ==
    [][StatusRefreshed =>
            /\ ~state'.isValidationStatusChangePending
            /\ nreq' = nreq
            /\ requests' = requests
            /\ props' = props
            /\ IF state.submission.isNull
               THEN state' = [state EXCEPT !.isValidationStatusChangePending = FALSE]
               ELSE /\ state'.submission.validation = CompletedStatusCall.uid
                    /\ state'.submission.isNull = state.submission.isNull
                    /\ state'.submission.sid = state.submission.sid
                    /\ state'.submission.req = state.submission.req
                    /\ state'.previous = state.previous
                    /\ state'.next = state.next
                    /\ state'.sid = state.sid
                    /\ state'.isFetchingSubmissionData = state.isFetchingSubmissionData]_vars

\* the modal's own update has completed: the loaded submission carries the new
\* status and the change is no longer pending
C12_Witness ==
    /\ lastOp = [op |-> "refreshSubmissionValidationStatus", req |-> 1]
    /\ RenderState(state) = "displaying"
    /\ state.submission.validation = "validation_status_approved"
    /\ ~state.isValidationStatusChangePending
    /\ nreq = 1
    /\ requests = {}

-----------------------------------------------------------------------------
(* Claims about the deletion, under SpecDelete *)

\* C13: a deleteSubmission request is issued only by OK in the confirmation
\* dialog, which only deleteSubmission() opens; OK issues exactly one request,
\* for the asset and props.sid, and does not hide the modal; Cancel issues no
\* request and leaves the modal state unchanged; the deletion flow hides the
\* modal only when a deletion is reported completed.
C13_DeleteOnlyAfterOk ==
    /\ [][(ndelete' # ndelete \/ deleteCalls' \ deleteCalls # {}) =>
            /\ lastOp'.op = "onok"
            /\ dialog = "open"
            /\ ndelete' = ndelete + 1
            /\ deleteCalls' = deleteCalls \cup
                    {[id |-> ndelete', assetUid |-> AssetUid, sid |-> props.sid]}
            /\ hidden' = hidden]_vars
    /\ [][(dialog = "closed" /\ dialog' = "open") => lastOp'.op = "deleteSubmission"]_vars
    /\ [][(dialog = "open" /\ lastOp'.op = "onok") => Cardinality(deleteCalls') =
                                                        Cardinality(deleteCalls) + 1]_vars
    /\ [][(dialog = "open" /\ lastOp'.op = "oncancel") =>
            /\ deleteCalls' = deleteCalls
            /\ ndelete' = ndelete
            /\ state' = state
            /\ props' = props
            /\ hidden' = hidden]_vars
    /\ [][(hidden' /\ ~hidden /\ lastOp'.op # "duplicateSubmission") =>
            /\ lastOp'.op = "onDeletedSubmissionCompleted"
            /\ \E c \in deleteCalls : c.id = lastOp'.req /\ c \notin deleteCalls']_vars

\* the deletion confirmed in the dialog has been reported completed and the
\* modal is hidden
C13_Witness ==
    /\ hidden
    /\ lastOp = [op |-> "onDeletedSubmissionCompleted", req |-> 1]
    /\ ndelete = 1
    /\ deleteCalls = {}
    /\ dialog = "closed"

-----------------------------------------------------------------------------
(* Further claims about the fetch state machine *)

\* C14: whenever the most recent getSubmission has completed successfully
\* and no fetch is in progress, render shows the loaded submission and not an
\* error message left by an earlier failed fetch.
C14_SuccessDisplays ==
    (/\ lastOp.op = "done"
     /\ lastOp.req = nreq
     /\ requests = {}
     /\ ~state.isFetchingSubmissionData) => RenderState(state) = "displaying"

\* the identifiers next to the loaded submission's sid in props.ids
NeighboursBefore == {props.ids[c - 1] : c \in {d \in PositionsOfSid : d > 1}}
NeighboursAfter == {props.ids[c + 1] : c \in {d \in PositionsOfSid : d < Len(props.ids)}}

\* C15: after a successful getSubmission, previous is -1, -2 or the
\* identifier just before the current sid in ids, and next is -1, -2 or the
\* identifier just after it; when the sid does not occur in ids, previous and
\* next are both -1.
C15_NeighboursOrSentinels ==
    JustLoaded =>
        /\ state.previous \in {-1, -2} \cup NeighboursBefore
        /\ state.next \in {-1, -2} \cup NeighboursAfter
        /\ PositionsOfSid = {} => (state.previous = -1 /\ state.next = -1)

\* C16: while a getSubmission request is outstanding isFetchingSubmissionData
\* is true, and a submission rendered with no request outstanding is the
\* record of state.sid, which is props.sid.
C16_SpinnerUntilAllArrived ==
    /\ requests # {} => state.isFetchingSubmissionData
    /\ (requests = {} /\ RenderState(state) = "displaying") =>
            /\ state.sid = props.sid
            /\ state.submission.sid = state.sid.text

====
